---- MODULE Spec2Model ----
(***************************************************************************)
(* WGAN training notebook (src/WGAN.ipynb): the Critic/Generator           *)
(* construction, the weight clipping constraint, the Wasserstein loss, the *)
(* sample generators and the train() loop with its checkpoints.            *)
(*                                                                         *)
(* Numbers: a weight is an integer count of 1/1000 (0.005 is 5, 1.0 is     *)
(* 1000).  A loss is an exact fraction <<num, den>>, den > 0 and reduced;  *)
(* <<0, 0>> is nan (the mean of an empty batch).                           *)
(*                                                                         *)
(* keras: a model trains the weights it collected when it was compiled     *)
(* (compile() freezes the trainable state); a constraint attached to a     *)
(* weight is applied to that weight after every optimizer update of it.    *)
(* The forward pass and the gradient are opaque: a gradient step is an     *)
(* input drawn from Grads, every critic score is the one value UnitScore,  *)
(* and a moving statistic is known by the number of batches folded into    *)
(* it: a layer that normalises in training mode adds one to it.            *)
(***************************************************************************)
EXTENDS Integers, Sequences, FiniteSets, TLC

VARIABLES
    pc,             \* position of train(): entry, loop, critic, critic_fake, gen, check, done, raised
    args,           \* arguments of train(): n_epochs, n_batch, n_critic, latent_dim
    dataset,        \* the images, dataset.shape[0] = Len(dataset)
    g_model,        \* generator: its layers
    c_model,        \* critic: its layers and the weights its compile() collected
    gan_model,      \* composite: the weights its compile() collected, by owner
    bat_per_epo, n_steps, half_batch,   \* locals of train(), lines 395-397
    i, sub,         \* loop variables of lines 401 and 404 (sub counts finished sub-steps)
    c1_tmp, c2_tmp, c1_hist, c2_hist, g_hist,
    plots, models,  \* files written by summarize_performance
    history,        \* calls of plot_history: the three lists it was handed
    ckpt_failures,  \* the steps (i + 1) at which summarize_performance raised
    n_c_updates, n_g_updates,   \* optimizer updates done by c_model / gan_model
    updates,        \* the train_on_batch calls so far: the model, the source of X, the labels y
    t_pc, t_in, t_out           \* a call of one of the pure functions: position, arguments, result

vars == <<pc, args, dataset, g_model, c_model, gan_model, bat_per_epo, n_steps,
          half_batch, i, sub, c1_tmp, c2_tmp, c1_hist, c2_hist, g_hist, plots,
          models, history, ckpt_failures, n_c_updates, n_g_updates, updates,
          t_pc, t_in, t_out>>

modelVars == <<g_model, c_model, gan_model>>
trainVars == <<pc, args, dataset, bat_per_epo, n_steps, half_batch, i, sub,
               c1_tmp, c2_tmp, c1_hist, c2_hist, g_hist, plots, models, history,
               ckpt_failures, n_c_updates, n_g_updates, updates>>
callVars  == <<t_pc, t_in, t_out>>

----------------------------------------------------------------------------
\* Bounds of the model.
MaxN       == 2     \* dataset sizes 0..MaxN
MaxBatch   == 2     \* n_batch 1..MaxBatch
MaxEpochs  == 2     \* n_epochs 0..MaxEpochs
MaxCritic  == 1     \* n_critic 0..MaxCritic
MaxGrad    == 5     \* an optimizer step moves a weight by -MaxGrad, 0 or MaxGrad
MaxDrift   == 10    \* an unconstrained weight stays within MaxDrift of its initial value

MaxLen     == 2     \* tensors handed to a pure function have at most MaxLen entries
MaxW       == 7     \* their weights are -MaxW..MaxW
MaxClip    == 3     \* clip values 1..MaxClip, and clip_value
MaxScore   == 2     \* scores are -MaxScore..MaxScore
MaxData    == 2     \* datasets handed to generate_real_samples have 1..MaxData images
MaxImage   == 2     \* an image is 1..MaxImage
MaxSamples == 2     \* n_samples 0..MaxSamples
MaxLatent  == 2     \* latent_dim 0..MaxLatent
MaxZ       == 1     \* a latent coordinate is -MaxZ or MaxZ

Grads      == {-MaxGrad, 0, MaxGrad}

\* Program constants, in 1/1000.
clip_value == 5        \* ClipConstraint(0.005)
stddev     == 20       \* RandomNormal(stddev=0.02)
One        == 1000     \* 1.0: BatchNormalization's initial gamma
UnitScore  == 1        \* the critic's score of an image (forward pass not modelled)
n_conv     == 4        \* the four Conv2D / Conv2DTranspose stages
glorot     == 61       \* Dense(1) of the critic: default glorot_uniform limit sqrt(6/1601)

----------------------------------------------------------------------------
\* Arithmetic helpers.
Min(a, b) == IF a <= b THEN a ELSE b
Max(a, b) == IF a >= b THEN a ELSE b
Abs(a)    == IF a < 0 THEN -a ELSE a

RECURSIVE GCD(_, _)
GCD(a, b) == IF b = 0 THEN a ELSE GCD(b, a % b)

RECURSIVE SumSeq(_)
SumSeq(s) == IF s = <<>> THEN 0 ELSE Head(s) + SumSeq(Tail(s))

\* a float as an exact fraction; x / 0 is nan
NaN == <<0, 0>>
Frac(n, d) ==
    IF d = 0 THEN NaN
    ELSE LET g == GCD(Abs(n), Abs(d))
             s == IF d < 0 THEN -1 ELSE 1
         IN  <<(s * n) \div g, (s * d) \div g>>
FracAdd(a, b) ==
    IF a[2] = 0 \/ b[2] = 0 THEN NaN
    ELSE Frac(a[1] * b[2] + b[1] * a[2], a[2] * b[2])

RECURSIVE FracSum(_)
FracSum(s) == IF s = <<>> THEN <<0, 1>> ELSE FracAdd(Head(s), FracSum(Tail(s)))

\* int(a / b) of Python for a >= 0, b > 0
IntDiv(a, b) == a \div b

----------------------------------------------------------------------------
\* backend.mean of a tensor of integers (line 64); nan for an empty tensor
backend_mean(t) == Frac(SumSeq(t), Len(t))

\* numpy.mean of a list of losses (lines 416-417); nan for an empty list
mean(l) ==
    LET s == FracSum(l)
    IN  IF Len(l) = 0 \/ s[2] = 0 THEN NaN ELSE Frac(s[1], s[2] * Len(l))

\* lines 63-64 with the labels left out
wasserstein_loss_unsigned(y_true, y_pred) ==
    backend_mean([k \in 1..Len(y_true) |-> y_pred[k]])

\* lines 63-64
wasserstein_loss(y_true, y_pred) ==
    backend_mean([k \in 1..Len(y_true) |-> y_true[k] * y_pred[k]])

\* backend.clip with the lower bound lost
backend_clip_upper(x, min_value, max_value) == Min(x, max_value)

\* backend.clip(x, min_value, max_value), elementwise on one value
backend_clip(x, min_value, max_value) ==
    LET hi == IF max_value < min_value THEN min_value ELSE max_value
    IN  Min(Max(x, min_value), hi)

\* lines 73-80: ClipConstraint(clip_value).__call__(weights), on one value
ClipConstraint(c, w) == backend_clip(w, -c, c)

\* the same on a weight tensor
ClipTensor(c, weights) == [k \in 1..Len(weights) |-> ClipConstraint(c, weights[k])]

----------------------------------------------------------------------------
\* Layers.  kernel_constraint is 0 for None, else the clip value.
Conv2D(init, const) ==
    [type |-> "Conv2D", trainable |-> TRUE, kernel_constraint |-> const,
     w |-> [n \in {"kernel", "bias"} |-> IF n = "kernel" THEN init ELSE 0]]
Conv2DTranspose(init) ==
    [type |-> "Conv2DTranspose", trainable |-> TRUE, kernel_constraint |-> 0,
     w |-> [n \in {"kernel", "bias"} |-> IF n = "kernel" THEN init ELSE 0]]
Dense(init) ==
    [type |-> "Dense", trainable |-> TRUE, kernel_constraint |-> 0,
     w |-> [n \in {"kernel", "bias"} |-> IF n = "kernel" THEN init ELSE 0]]
BatchNormalization ==
    [type |-> "BatchNormalization", trainable |-> TRUE, kernel_constraint |-> 0,
     w |-> [n \in {"gamma", "beta", "moving_mean", "moving_variance"} |->
               IF n = "gamma" THEN One ELSE 0]]
Plain(t) ==
    [type |-> t, trainable |-> TRUE, kernel_constraint |-> 0, w |-> <<>>]

\* the weights an optimizer may train: not the moving statistics
TrainableNames == {"kernel", "bias", "gamma", "beta"}
MovingNames    == {"moving_mean", "moving_variance"}

\* model.compile(): the trainable weights of the layers that are trainable now
CollectTrainable(layers) ==
    {<<k, n>> \in (DOMAIN layers) \X TrainableNames :
        layers[k].trainable /\ n \in DOMAIN layers[k].w}

RECURSIVE Repeat(_, _)
Repeat(block, n) == IF n = 0 THEN <<>> ELSE block \o Repeat(block, n - 1)

\* lines 108-141
define_critic ==
    LET init   == stddev
        const  == clip_value
        layers == Repeat(<<Conv2D(init, const), BatchNormalization, Plain("LeakyReLU")>>, n_conv)
                  \o <<Plain("Flatten"), Dense(glorot)>>
    IN  [layers |-> layers, collected |-> CollectTrainable(layers)]

\* lines 161-190
define_generator ==
    LET init   == stddev
        layers == <<Dense(init), Plain("LeakyReLU"), Plain("Reshape")>>
                  \o Repeat(<<Conv2DTranspose(init), BatchNormalization, Plain("LeakyReLU")>>, n_conv)
                  \o <<Conv2D(init, 0)>>
    IN  [layers |-> layers]

\* lines 209-211 with the freezing left out
FreezeCritic_none(layers) == layers

\* lines 209-211: the loop over critic.layers
FreezeCritic(layers) ==
    [k \in DOMAIN layers |->
        IF layers[k].type # "BatchNormalization"
        THEN [layers[k] EXCEPT !.trainable = FALSE]
        ELSE layers[k]]

\* lines 207-221: returns the critic as it leaves define_wgan and the composite
define_wgan(generator, critic) ==
    LET frozen == FreezeCritic(critic.layers)
    IN  [critic |-> [critic EXCEPT !.layers = frozen],
         model  |-> [collected |-> [generator |-> CollectTrainable(generator.layers),
                                    critic    |-> CollectTrainable(frozen)]]]

----------------------------------------------------------------------------
\* One optimizer update of the collected weights of a layer list with
\* gradient step g, followed by the weight's constraint; the layers that
\* normalise in training mode fold the batch into their moving statistics.
UpdateLayers(layers, collected, g) ==
    [k \in DOMAIN layers |->
        [layers[k] EXCEPT !.w =
            [n \in DOMAIN layers[k].w |->
                IF <<k, n>> \in collected
                THEN IF n = "kernel" /\ layers[k].kernel_constraint # 0
                     THEN ClipConstraint(layers[k].kernel_constraint, layers[k].w[n] - g)
                     ELSE layers[k].w[n] - g
                ELSE IF n \in MovingNames /\ layers[k].trainable
                     THEN layers[k].w[n] + 1
                     ELSE layers[k].w[n]]]]

\* the update keeps every unconstrained weight within MaxDrift of its initial value
WithinDrift(layers, initial) ==
    \A k \in DOMAIN layers : \A n \in DOMAIN layers[k].w :
        (n \in TrainableNames /\ layers[k].kernel_constraint = 0)
            => Abs(layers[k].w[n] - initial[k].w[n]) <= MaxDrift

\* c_model.train_on_batch(X, y) with X of n images: the loss it returns
CriticLoss(y) == wasserstein_loss(y, [k \in 1..Len(y) |-> UnitScore])

\* '%04d' % n for n >= 0: the decimal digits, padded with zeros to four
RECURSIVE Digits(_)
Digits(n) == IF n < 10 THEN <<n>> ELSE Digits(n \div 10) \o <<n % 10>>
Fmt04d(n) ==
    LET d == Digits(n)
    IN  [k \in 1..(Max(4, Len(d)) - Len(d)) |-> 0] \o d

ones(n)  == [k \in 1..n |-> 1]
mones(n) == [k \in 1..n |-> -1]

----------------------------------------------------------------------------
\* The state after the notebook's construction cell (lines 455-463).
Built == define_wgan(define_generator, define_critic)

\* the end-to-end scenario: 100 images, n_batch 10, n_critic 2, one epoch
ScenarioArgs == [n_epochs |-> 1, n_batch |-> 10, n_critic |-> 2, latent_dim |-> 10]

\* a dataset of n images (load_real_samples returns 6000), the image k is k
Images(n) == [k \in 1..n |-> k]

ScenarioDataset == Images(100)

ModelsInit ==
    /\ g_model = define_generator
    /\ c_model = Built.critic
    /\ gan_model = Built.model

TrainIdle ==
    /\ bat_per_epo = 0 /\ n_steps = 0 /\ half_batch = 0
    /\ i = 0 /\ sub = 0
    /\ c1_tmp = <<>> /\ c2_tmp = <<>>
    /\ c1_hist = <<>> /\ c2_hist = <<>> /\ g_hist = <<>>
    /\ plots = <<>> /\ models = <<>> /\ history = <<>> /\ ckpt_failures = <<>>
    /\ n_c_updates = 0 /\ n_g_updates = 0
    /\ updates = <<>>

\* no pure function is being called
CallIdle == t_pc = "idle" /\ t_in = <<>> /\ t_out = <<>>

Init ==
    /\ pc = "entry"
    /\ \/ /\ dataset \in {Images(n) : n \in 0..MaxN}
          /\ args \in [n_epochs : 0..MaxEpochs, n_batch : 1..MaxBatch,
                       n_critic : 0..MaxCritic, latent_dim : {2}]
       \/ /\ dataset = ScenarioDataset
          /\ args = ScenarioArgs
    /\ ModelsInit
    /\ TrainIdle
    /\ CallIdle

----------------------------------------------------------------------------
\* train(), lines 393-430.

\* lines 395-399 with the batches per epoch rounded up
train_entry_ceil ==
    /\ pc = "entry"
    /\ bat_per_epo' = IntDiv(Len(dataset) + args.n_batch - 1, args.n_batch)
    /\ n_steps' = IntDiv(Len(dataset) + args.n_batch - 1, args.n_batch) * args.n_epochs
    /\ half_batch' = IntDiv(args.n_batch, 2)
    /\ c1_hist' = <<>> /\ c2_hist' = <<>> /\ g_hist' = <<>>
    /\ i' = 0
    /\ pc' = "loop"
    /\ UNCHANGED <<args, dataset, sub, c1_tmp, c2_tmp, plots, models, history,
                   n_c_updates, n_g_updates>>
    /\ UNCHANGED modelVars /\ UNCHANGED callVars /\ UNCHANGED ckpt_failures /\ UNCHANGED updates

\* lines 395-399
train_entry ==
    /\ pc = "entry"
    /\ bat_per_epo' = IntDiv(Len(dataset), args.n_batch)
    /\ n_steps' = IntDiv(Len(dataset), args.n_batch) * args.n_epochs
    /\ half_batch' = IntDiv(args.n_batch, 2)
    /\ c1_hist' = <<>> /\ c2_hist' = <<>> /\ g_hist' = <<>>
    /\ i' = 0
    /\ pc' = "loop"
    /\ UNCHANGED <<args, dataset, sub, c1_tmp, c2_tmp, plots, models, history,
                   n_c_updates, n_g_updates>>
    /\ UNCHANGED modelVars /\ UNCHANGED callVars /\ UNCHANGED ckpt_failures /\ UNCHANGED updates

\* lines 401-403: the next iteration of for i in range(n_steps)
BeginStep ==
    /\ pc = "loop" /\ i < n_steps
    /\ c1_tmp' = <<>> /\ c2_tmp' = <<>>
    /\ sub' = 0
    /\ pc' = "critic"
    /\ UNCHANGED <<args, dataset, bat_per_epo, n_steps, half_batch, i, c1_hist,
                   c2_hist, g_hist, plots, models, history, n_c_updates, n_g_updates>>
    /\ UNCHANGED modelVars /\ UNCHANGED callVars /\ UNCHANGED ckpt_failures /\ UNCHANGED updates

\* c_model.train_on_batch(X, y): one update of the critic's collected weights
CriticTrainOnBatch(g) ==
    LET layers == UpdateLayers(c_model.layers, c_model.collected, g)
    IN  /\ WithinDrift(layers, define_critic.layers)
        /\ c_model' = [c_model EXCEPT !.layers = layers]
        /\ n_c_updates' = n_c_updates + 1

\* lines 404-409: a sub-step's update on a real half batch
CriticReal ==
    /\ pc = "critic" /\ sub < args.n_critic
    /\ \E g \in Grads : CriticTrainOnBatch(g)
    /\ c1_tmp' = Append(c1_tmp, CriticLoss(mones(half_batch)))
    /\ updates' = Append(updates, [model |-> "c_model", X |-> "real", y |-> mones(half_batch)])
    /\ pc' = "critic_fake"
    /\ UNCHANGED <<args, dataset, bat_per_epo, n_steps, half_batch, i, sub, c2_tmp,
                   c1_hist, c2_hist, g_hist, plots, models, history, n_g_updates>>
    /\ UNCHANGED <<g_model, gan_model>> /\ UNCHANGED callVars /\ UNCHANGED ckpt_failures

\* lines 410-414: the sub-step's update on a fake half batch
CriticFake ==
    /\ pc = "critic_fake"
    /\ \E g \in Grads : CriticTrainOnBatch(g)
    /\ c2_tmp' = Append(c2_tmp, CriticLoss(ones(half_batch)))
    /\ updates' = Append(updates, [model |-> "c_model", X |-> "fake", y |-> ones(half_batch)])
    /\ sub' = sub + 1
    /\ pc' = "critic"
    /\ UNCHANGED <<args, dataset, bat_per_epo, n_steps, half_batch, i, c1_tmp,
                   c1_hist, c2_hist, g_hist, plots, models, history, n_g_updates>>
    /\ UNCHANGED <<g_model, gan_model>> /\ UNCHANGED callVars /\ UNCHANGED ckpt_failures

\* lines 416-417 with the second append lost
StoreCriticLoss_one ==
    /\ pc = "critic" /\ sub >= args.n_critic
    /\ c1_hist' = Append(c1_hist, mean(c1_tmp))
    /\ pc' = "gen"
    /\ UNCHANGED <<args, dataset, bat_per_epo, n_steps, half_batch, i, sub, c1_tmp,
                   c2_tmp, c2_hist, g_hist, plots, models, history, n_c_updates, n_g_updates>>
    /\ UNCHANGED modelVars /\ UNCHANGED callVars /\ UNCHANGED ckpt_failures /\ UNCHANGED updates

\* lines 416-417
StoreCriticLoss ==
    /\ pc = "critic" /\ sub >= args.n_critic
    /\ c1_hist' = Append(c1_hist, mean(c1_tmp))
    /\ c2_hist' = Append(c2_hist, mean(c2_tmp))
    /\ pc' = "gen"
    /\ UNCHANGED <<args, dataset, bat_per_epo, n_steps, half_batch, i, sub, c1_tmp,
                   c2_tmp, g_hist, plots, models, history, n_c_updates, n_g_updates>>
    /\ UNCHANGED modelVars /\ UNCHANGED callVars /\ UNCHANGED ckpt_failures /\ UNCHANGED updates

\* gan_model.train_on_batch(X_gan, y_gan): one update of the composite's
\* collected weights, the generator's and the critic's, in shared storage
GanTrainOnBatch(g) ==
    LET glayers == UpdateLayers(g_model.layers, gan_model.collected.generator, g)
        clayers == UpdateLayers(c_model.layers, gan_model.collected.critic, g)
    IN  /\ WithinDrift(glayers, define_generator.layers)
        /\ WithinDrift(clayers, define_critic.layers)
        /\ g_model' = [g_model EXCEPT !.layers = glayers]
        /\ c_model' = [c_model EXCEPT !.layers = clayers]
        /\ n_g_updates' = n_g_updates + 1

\* lines 419-425 with y_gan of the size of a half batch
GeneratorStep_half_batch ==
    /\ pc = "gen"
    /\ \E g \in Grads : GanTrainOnBatch(g)
    /\ g_hist' = Append(g_hist, CriticLoss(mones(half_batch)))
    /\ updates' = Append(updates, [model |-> "gan_model", X |-> "latent", y |-> mones(half_batch)])
    /\ pc' = "check"
    /\ UNCHANGED <<args, dataset, bat_per_epo, n_steps, half_batch, i, sub, c1_tmp,
                   c2_tmp, c1_hist, c2_hist, plots, models, history, n_c_updates>>
    /\ UNCHANGED gan_model /\ UNCHANGED callVars /\ UNCHANGED ckpt_failures

\* lines 419-425
GeneratorStep ==
    /\ pc = "gen"
    /\ \E g \in Grads : GanTrainOnBatch(g)
    /\ g_hist' = Append(g_hist, CriticLoss(mones(args.n_batch)))
    /\ updates' = Append(updates, [model |-> "gan_model", X |-> "latent", y |-> mones(args.n_batch)])
    /\ pc' = "check"
    /\ UNCHANGED <<args, dataset, bat_per_epo, n_steps, half_batch, i, sub, c1_tmp,
                   c2_tmp, c1_hist, c2_hist, plots, models, history, n_c_updates>>
    /\ UNCHANGED gan_model /\ UNCHANGED callVars /\ UNCHANGED ckpt_failures

\* lines 345 and 349: the two file names of a checkpoint
filename1(step) == [name |-> "generated_plot_", number |-> Fmt04d(step + 1), ext |-> ".png"]
\* line 349 with the zero-based step
filename2_zero_based(step) == [name |-> "model_", number |-> Fmt04d(step), ext |-> ".h5"]
filename2(step) == [name |-> "model_", number |-> Fmt04d(step + 1), ext |-> ".h5"]

\* line 427 with the zero-based index
EpochBoundary_zero_based == i % bat_per_epo = 0

\* line 427
EpochBoundary == (i + 1) % bat_per_epo = 0

\* lines 427-428, 334-351: the checkpoint is written
summarize_performance ==
    /\ pc = "check" /\ EpochBoundary
    /\ plots' = Append(plots, filename1(i))
    /\ models' = Append(models, [file |-> filename2(i), layers |-> g_model.layers])
    /\ i' = i + 1
    /\ pc' = "loop"
    /\ UNCHANGED <<args, dataset, bat_per_epo, n_steps, half_batch, sub, c1_tmp, c2_tmp,
                   c1_hist, c2_hist, g_hist, history, n_c_updates, n_g_updates>>
    /\ UNCHANGED modelVars /\ UNCHANGED callVars /\ UNCHANGED ckpt_failures /\ UNCHANGED updates

\* lines 427-428 inside a try/except that reports the failure and goes on
summarize_raises_caught ==
    /\ pc = "check" /\ EpochBoundary
    /\ \/ UNCHANGED plots
       \/ plots' = Append(plots, filename1(i))
    /\ ckpt_failures' = Append(ckpt_failures, i + 1)
    /\ i' = i + 1
    /\ pc' = "loop"
    /\ UNCHANGED <<args, dataset, bat_per_epo, n_steps, half_batch, sub, c1_tmp, c2_tmp,
                   c1_hist, c2_hist, g_hist, models, history, n_c_updates, n_g_updates>>
    /\ UNCHANGED modelVars /\ UNCHANGED callVars /\ UNCHANGED updates

\* lines 346 and 350: pyplot.savefig or g_model.save raises; train() has no
\* handler, so the exception leaves train()
summarize_raises ==
    /\ pc = "check" /\ EpochBoundary
    /\ \/ UNCHANGED plots
       \/ plots' = Append(plots, filename1(i))
    /\ ckpt_failures' = Append(ckpt_failures, i + 1)
    /\ pc' = "raised"
    /\ UNCHANGED <<args, dataset, bat_per_epo, n_steps, half_batch, i, sub, c1_tmp, c2_tmp,
                   c1_hist, c2_hist, g_hist, models, history, n_c_updates, n_g_updates>>
    /\ UNCHANGED modelVars /\ UNCHANGED callVars /\ UNCHANGED updates

\* line 427, condition false
NoCheckpoint ==
    /\ pc = "check" /\ ~EpochBoundary
    /\ i' = i + 1
    /\ pc' = "loop"
    /\ UNCHANGED <<args, dataset, bat_per_epo, n_steps, half_batch, sub, c1_tmp, c2_tmp,
                   c1_hist, c2_hist, g_hist, plots, models, history, n_c_updates,
                   n_g_updates>>
    /\ UNCHANGED modelVars /\ UNCHANGED callVars /\ UNCHANGED ckpt_failures /\ UNCHANGED updates

\* line 430 indented into the loop body: the history is plotted at every step
plot_history_in_loop ==
    /\ pc = "loop" /\ Len(history) <= i
    /\ history' = Append(history, [d1_hist |-> c1_hist, d2_hist |-> c2_hist, g_hist |-> g_hist])
    /\ pc' = IF i >= n_steps THEN "done" ELSE "loop"
    /\ UNCHANGED <<args, dataset, bat_per_epo, n_steps, half_batch, i, sub, c1_tmp, c2_tmp,
                   c1_hist, c2_hist, g_hist, plots, models, n_c_updates, n_g_updates>>
    /\ UNCHANGED modelVars /\ UNCHANGED callVars /\ UNCHANGED ckpt_failures /\ UNCHANGED updates

\* line 430, 367-373
plot_history ==
    /\ pc = "loop" /\ i >= n_steps
    /\ history' = Append(history, [d1_hist |-> c1_hist, d2_hist |-> c2_hist, g_hist |-> g_hist])
    /\ pc' = "done"
    /\ UNCHANGED <<args, dataset, bat_per_epo, n_steps, half_batch, i, sub, c1_tmp, c2_tmp,
                   c1_hist, c2_hist, g_hist, plots, models, n_c_updates, n_g_updates>>
    /\ UNCHANGED modelVars /\ UNCHANGED callVars /\ UNCHANGED ckpt_failures /\ UNCHANGED updates

Next ==
    \/ train_entry
    \/ BeginStep
    \/ CriticReal
    \/ CriticFake
    \/ StoreCriticLoss
    \/ GeneratorStep
    \/ summarize_performance
    \/ summarize_raises
    \/ NoCheckpoint
    \/ plot_history

Spec == Init /\ [][Next]_vars

\* train() is one thread that runs to its end
FairSpec == Spec /\ WF_vars(Next)


----------------------------------------------------------------------------
\* Properties of train().

\* floor(a / b) for a >= 0, b > 0, by its defining inequalities
FloorDiv(a, b) == CHOOSE q \in 0..a : q * b <= a /\ a < (q + 1) * b

N == Len(dataset)
CriticParams == {<<k, n>> \in (DOMAIN c_model.layers) \X TrainableNames :
                    n \in DOMAIN c_model.layers[k].w}

\* C1: once the critic has been updated at least once, every critic parameter
\* (convolution kernels and biases, the Dense kernel and bias, the
\* normalization scale and shift) lies within [-c, c], c = 0.005.
C1_EveryCriticParameterClipped ==
    n_c_updates > 0 =>
        \A p \in CriticParams :
            /\ c_model.layers[p[1]].w[p[2]] >= -clip_value
            /\ c_model.layers[p[1]].w[p[2]] <= clip_value

\* C2 as stated: a checkpoint failure is caught and does not abort train();
\* the run goes on and ends with the loss history emitted.
C2_CheckpointFailureCaught ==
    ckpt_failures # <<>> =>
        /\ pc # "raised"
        /\ pc = "done" => Len(history) = 1

\* C2 amended: a checkpoint failure is not caught: the exception leaves
\* train() at that step, no later step runs (nothing is enabled), the model
\* of that step is not saved and the loss history is never emitted.
C2_CheckpointFailureAborts ==
    ckpt_failures # <<>> =>
        /\ pc = "raised"
        /\ Len(ckpt_failures) = 1
        /\ n_g_updates = ckpt_failures[1]
        /\ i + 1 = ckpt_failures[1]
        /\ history = <<>>
        /\ \A k \in DOMAIN models : models[k].file # filename2(i)
        /\ ~ENABLED Next

C2_Witness ==
    /\ pc = "raised"
    /\ ckpt_failures # <<>>
    /\ i + 1 < n_steps

\* C3 as stated: a dataset smaller than the batch is a fatal error found
\* before the first step: no update, no checkpoint, no loss history emitted.
C3_SmallDatasetIsFatal ==
    N < args.n_batch =>
        /\ n_c_updates = 0 /\ n_g_updates = 0
        /\ plots = <<>> /\ models = <<>>
        /\ history = <<>>
        /\ pc # "done"

\* C3 amended: with a dataset smaller than the batch train() raises nothing:
\* it runs zero steps (no update, no checkpoint), goes straight to
\* plot_history and returns after emitting the three empty loss lists.
C3_SmallDatasetRunsNoStep ==
    N < args.n_batch =>
        /\ n_c_updates = 0 /\ n_g_updates = 0
        /\ plots = <<>> /\ models = <<>> /\ ckpt_failures = <<>>
        /\ pc \in {"entry", "loop", "done"}
        /\ pc = "loop" => (n_steps = 0 /\ ENABLED plot_history /\ ~ENABLED BeginStep)
        /\ pc # "done" => history = <<>>
        /\ pc = "done" => history = <<[d1_hist |-> <<>>, d2_hist |-> <<>>, g_hist |-> <<>>]>>

C3_Witness ==
    /\ N < args.n_batch /\ N > 0 /\ args.n_epochs > 0
    /\ pc = "done"
    /\ Len(history) = 1

\* C4: at the end of every completed step T each of the three loss lists has
\* length T (T counted by the generator updates), also when the lists are
\* handed to plot_history.
C4_LossHistoryLength ==
    /\ pc \in {"loop", "done"} =>
          /\ i = n_g_updates
          /\ Len(c1_hist) = n_g_updates
          /\ Len(c2_hist) = n_g_updates
          /\ Len(g_hist) = n_g_updates
    /\ pc = "check" =>
          /\ Len(c1_hist) = n_g_updates
          /\ Len(c2_hist) = n_g_updates
          /\ Len(g_hist) = n_g_updates
    /\ \A k \in DOMAIN history :
          /\ Len(history[k].d1_hist) = n_g_updates
          /\ Len(history[k].d2_hist) = n_g_updates
          /\ Len(history[k].g_hist) = n_g_updates

C4_Witness ==
    /\ pc = "loop"
    /\ n_g_updates = 2
    /\ Len(c1_hist) = 2 /\ Len(c2_hist) = 2 /\ Len(g_hist) = 2

\* the 1-based steps, among the first t, that are multiples of the steps per epoch
EpochSteps(t) == {k \in 1..t : k % FloorDiv(N, args.n_batch) = 0}

\* C5: a checkpoint is written at the end of a step exactly when the count of
\* completed steps is a multiple of floor(N / n_batch), under that count as
\* tag; a failing checkpoint also happens only at such a step; with N = 100,
\* n_batch = 10, n_epochs = 1 there is one checkpoint, tagged 0010.
C5_CheckpointCadence ==
    /\ pc \in {"loop", "done"} =>
          /\ Len(models) = Cardinality(EpochSteps(i))
          /\ Len(plots) = Cardinality(EpochSteps(i))
          /\ {models[k].file.number : k \in DOMAIN models} = {Fmt04d(t) : t \in EpochSteps(i)}
          /\ {plots[k].number : k \in DOMAIN plots} = {Fmt04d(t) : t \in EpochSteps(i)}
    /\ \A k \in DOMAIN ckpt_failures : ckpt_failures[k] \in EpochSteps(ckpt_failures[k])
    /\ (dataset = ScenarioDataset /\ args = ScenarioArgs /\ pc = "done") =>
          /\ Len(models) = 1
          /\ models[1].file.number = <<0, 0, 1, 0>>
          /\ plots = <<[name |-> "generated_plot_", number |-> <<0, 0, 1, 0>>, ext |-> ".png"]>>
          /\ Len(c1_hist) = 10 /\ Len(c2_hist) = 10 /\ Len(g_hist) = 10

C5_Witness ==
    /\ dataset = ScenarioDataset /\ args = ScenarioArgs
    /\ pc = "done"
    /\ Len(models) = 1

\* the step budget of a run
Budget == FloorDiv(N, args.n_batch) * args.n_epochs

----------------------------------------------------------------------------
\* The order of the updates and the checkpoints of a run.

\* the update expected at place p of a run with K sub-steps per step: K
\* times (real, fake), then the composite
ExpectedModel(p, K)  == IF (p - 1) % (2 * K + 1) = 2 * K THEN "gan_model" ELSE "c_model"
ExpectedSource(p, K) ==
    IF (p - 1) % (2 * K + 1) = 2 * K THEN "latent"
    ELSE IF ((p - 1) % (2 * K + 1)) % 2 = 0 THEN "real" ELSE "fake"

\* C11: every step is K = n_critic sub-steps, each a critic update on a real
\* half batch (int(B / 2) images, labels -1) and then one on a fake half
\* batch (int(B / 2) images, labels +1), followed by one composite update on
\* B latent points with labels -1; the updates come one after the other in
\* that order, so a step boundary is reached after (2K + 1) * i updates and
\* a run that returns has done 2 * K * total critic updates and total
\* generator updates.
C11_UpdateOrdering ==
    LET K == args.n_critic
        B == args.n_batch
    IN  /\ \A p \in DOMAIN updates :
              /\ updates[p].model = ExpectedModel(p, K)
              /\ updates[p].X = ExpectedSource(p, K)
              /\ updates[p].X = "latent" => Len(updates[p].y) = B
              /\ updates[p].X # "latent" =>
                    /\ 2 * Len(updates[p].y) <= B
                    /\ B < 2 * Len(updates[p].y) + 2
              /\ \A k \in DOMAIN updates[p].y :
                    updates[p].y[k] = IF updates[p].X = "fake" THEN 1 ELSE -1
        /\ Len(updates) = n_c_updates + n_g_updates
        /\ Cardinality({p \in DOMAIN updates : updates[p].model = "gan_model"}) = n_g_updates
        /\ pc \in {"loop", "done"} => Len(updates) = (2 * K + 1) * i
        /\ pc = "gen" => Len(updates) = (2 * K + 1) * i + 2 * K
        /\ pc = "done" =>
              /\ n_c_updates = 2 * K * Budget
              /\ n_g_updates = Budget

C11_Witness ==
    /\ dataset = ScenarioDataset /\ args = ScenarioArgs
    /\ pc = "done"
    /\ n_c_updates = 40 /\ n_g_updates = 10
    /\ Len(updates) = 50
    /\ Len(updates[1].y) = 5 /\ Len(updates[5].y) = 10

\* the number a '%04d' string reads as
RECURSIVE DigitsValue(_)
DigitsValue(d) ==
    IF d = <<>> THEN 0
    ELSE 10 * DigitsValue(SubSeq(d, 1, Len(d) - 1)) + d[Len(d)]

\* C12: a run of at least one step that returns has written exactly
\* n_epochs checkpoints; the k-th is tagged k * floor(N / n_batch), so the
\* tags increase strictly up to the total number of steps and no file name
\* occurs twice; the model saved last is the generator as it is when
\* train() returns, after the last generator update.
C12_CheckpointsOfARun ==
    (pc = "done" /\ Budget > 0) =>
        LET spe == FloorDiv(N, args.n_batch)
        IN  /\ Len(models) = args.n_epochs
            /\ Len(plots) = args.n_epochs
            /\ \A k \in DOMAIN models :
                  /\ DigitsValue(models[k].file.number) = k * spe
                  /\ DigitsValue(plots[k].number) = k * spe
                  /\ Len(models[k].file.number) >= 4
            /\ \A j, k \in DOMAIN models :
                  j < k => /\ models[j].file # models[k].file
                           /\ plots[j] # plots[k]
                           /\ DigitsValue(models[j].file.number) < DigitsValue(models[k].file.number)
            /\ DigitsValue(models[Len(models)].file.number) = n_g_updates
            /\ n_g_updates = Budget
            /\ models[Len(models)].layers = g_model.layers

C12_Witness ==
    /\ pc = "done"
    /\ n_g_updates = 4
    /\ Len(models) = 2
    /\ models[1].file.number = <<0, 0, 0, 2>>
    /\ models[2].file.number = <<0, 0, 0, 4>>
    /\ models[1].layers # models[2].layers
    /\ models[2].layers = g_model.layers

----------------------------------------------------------------------------
\* The sample generators, lines 267-318.  ones((n, 1)) is the sequence of
\* its n entries.

\* lines 267-274 with the labels of the fake samples
generate_real_samples_ones(ds, n_samples, ix) ==
    [X |-> [k \in 1..n_samples |-> ds[ix[k] + 1]],
     y |-> ones(n_samples)]

\* lines 267-274; ix is the draw of randint(0, dataset.shape[0], n_samples)
generate_real_samples(ds, n_samples, ix) ==
    [X |-> [k \in 1..n_samples |-> ds[ix[k] + 1]],
     y |-> mones(n_samples)]

\* the draws randint(0, high, n) can return
randint(high, n) == [1..n -> 0..(high - 1)]

\* the draws randn(n) can return
randn(n) == [1..n -> {-MaxZ, MaxZ}]

\* lines 290-295; r is the draw of randn(latent_dim * n_samples)
generate_latent_points(latent_dim, n_samples, r) ==
    [k \in 1..n_samples |-> [j \in 1..latent_dim |-> r[(k - 1) * latent_dim + j]]]

\* generator.predict(x_input): the generator applied to each row; the image
\* of a row is the term "these layers applied to this latent vector"
predict(generator, x_input) ==
    [k \in 1..Len(x_input) |-> [layers |-> generator.layers, latent |-> x_input[k]]]

\* lines 311-318
generate_fake_samples(generator, latent_dim, n_samples, r) ==
    [X |-> predict(generator, generate_latent_points(latent_dim, n_samples, r)),
     y |-> ones(n_samples)]

----------------------------------------------------------------------------
\* Calls of the pure functions on bounded inputs.

Tensors(vals) == UNION {[1..n -> vals] : n \in 0..MaxLen}
Batches(vals) == UNION {[1..n -> vals] : n \in 1..MaxLen}
Datasets      == UNION {[1..n -> 1..MaxImage] : n \in 1..MaxData}

\* a generator that one composite update has already trained
TrainedGenerator ==
    [layers |-> UpdateLayers(define_generator.layers,
                             CollectTrainable(define_generator.layers), MaxGrad)]

CallInit ==
    /\ pc = "idle"
    /\ args = ScenarioArgs
    /\ dataset = <<>>
    /\ c_model = Built.critic
    /\ gan_model = Built.model
    /\ TrainIdle
    /\ t_out = <<>>
    /\ \/ /\ t_pc = "ClipConstraint"
          /\ g_model = define_generator
          /\ t_in \in [clip_value : (1..MaxClip) \cup {clip_value},
                       weights : Tensors(-MaxW..MaxW)]
       \/ /\ t_pc = "wasserstein_loss"
          /\ g_model = define_generator
          /\ \E y_pred \in Batches(-MaxScore..MaxScore) :
                t_in \in [y_true : [1..Len(y_pred) -> {-1, 1}], y_pred : {y_pred}]
       \/ /\ t_pc = "generate_real_samples"
          /\ g_model \in {define_generator, TrainedGenerator}
          /\ t_in \in [dataset : Datasets, latent_dim : 0..MaxLatent,
                       n_samples : 0..MaxSamples]

\* ClipConstraint(clip_value)(weights)
call_ClipConstraint ==
    /\ t_pc = "ClipConstraint"
    /\ t_out' = ClipTensor(t_in.clip_value, t_in.weights)
    /\ t_pc' = "ClipConstraint_ret"
    /\ UNCHANGED t_in /\ UNCHANGED modelVars /\ UNCHANGED trainVars

\* wasserstein_loss on the batch: with its labels, with all labels -1 and
\* with all labels +1
call_wasserstein_loss ==
    /\ t_pc = "wasserstein_loss"
    /\ t_out' = [loss |-> wasserstein_loss(t_in.y_true, t_in.y_pred),
                 real |-> wasserstein_loss(mones(Len(t_in.y_pred)), t_in.y_pred),
                 fake |-> wasserstein_loss(ones(Len(t_in.y_pred)), t_in.y_pred)]
    /\ t_pc' = "wasserstein_loss_ret"
    /\ UNCHANGED t_in /\ UNCHANGED modelVars /\ UNCHANGED trainVars

\* generate_real_samples(dataset, n_samples)
call_generate_real_samples ==
    /\ t_pc = "generate_real_samples"
    /\ \E ix \in randint(Len(t_in.dataset), t_in.n_samples) :
          t_out' = [real |-> generate_real_samples(t_in.dataset, t_in.n_samples, ix)]
    /\ t_pc' = "generate_fake_samples"
    /\ UNCHANGED t_in /\ UNCHANGED modelVars /\ UNCHANGED trainVars

\* generate_fake_samples(g_model, latent_dim, n_samples)
call_generate_fake_samples ==
    /\ t_pc = "generate_fake_samples"
    /\ \E r \in randn(t_in.latent_dim * t_in.n_samples) :
          t_out' = [real |-> t_out.real,
                    fake |-> generate_fake_samples(g_model, t_in.latent_dim, t_in.n_samples, r)]
    /\ t_pc' = "samples_ret"
    /\ UNCHANGED t_in /\ UNCHANGED modelVars /\ UNCHANGED trainVars

CallNext ==
    \/ call_ClipConstraint
    \/ call_wasserstein_loss
    \/ call_generate_real_samples
    \/ call_generate_fake_samples

CallSpec == CallInit /\ [][CallNext]_vars

\* C8: ClipConstraint(c), c > 0, returns max(min(w, c), -c) for every entry
\* w; the result lies in [-c, c], clipping it again changes nothing, and an
\* entry already in [-c, c] is returned as it is.
C8_ClipIdempotentInRange ==
    t_pc = "ClipConstraint_ret" =>
        LET c == t_in.clip_value
            w == t_in.weights
        IN  /\ Len(t_out) = Len(w)
            /\ \A k \in 1..Len(w) :
                  /\ t_out[k] = Max(Min(w[k], c), -c)
                  /\ -c <= t_out[k] /\ t_out[k] <= c
                  /\ (-c <= w[k] /\ w[k] <= c) => t_out[k] = w[k]
            /\ ClipTensor(c, t_out) = t_out

C8_Witness ==
    /\ t_pc = "ClipConstraint_ret"
    /\ t_in.clip_value = clip_value
    /\ t_in.weights = <<-MaxW, 3>>
    /\ t_out = <<-clip_value, 3>>

\* C9: wasserstein_loss(y_true, y_pred) is the mean of the products (as a
\* fraction: loss * n = sum of products); with all labels +1 it is
\* mean(y_pred), with all labels -1 it is -mean(y_pred), the exact negative.
C9_LossSignConvention ==
    t_pc = "wasserstein_loss_ret" =>
        LET y == t_in.y_pred
            n == Len(y)
            prod == [k \in 1..n |-> t_in.y_true[k] * y[k]]
        IN  /\ t_out.loss[2] > 0 /\ t_out.fake[2] > 0 /\ t_out.real[2] > 0
            /\ t_out.loss[1] * n = SumSeq(prod) * t_out.loss[2]
            /\ t_out.fake[1] * n = SumSeq(y) * t_out.fake[2]
            /\ t_out.real[1] * n = (-SumSeq(y)) * t_out.real[2]
            /\ t_out.real = <<-t_out.fake[1], t_out.fake[2]>>

C9_Witness ==
    /\ t_pc = "wasserstein_loss_ret"
    /\ t_in.y_pred = <<2, -1>>
    /\ t_out.fake = <<1, 2>>
    /\ t_out.real = <<-1, 2>>

\* C10: generate_real_samples returns n images, each one of the dataset's,
\* and n labels -1; generate_fake_samples returns n images, each the current
\* generator applied to a latent vector of dimension L, and n labels +1.
C10_BatchComposition ==
    /\ t_pc \in {"generate_fake_samples", "samples_ret"} =>
          LET r == t_out.real
          IN  /\ Len(r.X) = t_in.n_samples /\ Len(r.y) = t_in.n_samples
              /\ \A k \in 1..Len(r.X) :
                    \E j \in 1..Len(t_in.dataset) : r.X[k] = t_in.dataset[j]
              /\ \A k \in 1..Len(r.y) : r.y[k] = -1
    /\ t_pc = "samples_ret" =>
          LET f == t_out.fake
          IN  /\ Len(f.X) = t_in.n_samples /\ Len(f.y) = t_in.n_samples
              /\ \A k \in 1..Len(f.X) :
                    \E z \in [1..t_in.latent_dim -> {-MaxZ, MaxZ}] :
                        f.X[k] = [layers |-> g_model.layers, latent |-> z]
              /\ \A k \in 1..Len(f.y) : f.y[k] = 1

C10_Witness ==
    /\ t_pc = "samples_ret"
    /\ t_in.n_samples = 2 /\ t_in.latent_dim = 2 /\ Len(t_in.dataset) = 2
    /\ t_in.dataset[1] # t_in.dataset[2]
    /\ t_out.real.X[1] = t_out.real.X[2]
    /\ t_out.fake.X[1] # t_out.fake.X[2]
    /\ g_model = TrainedGenerator

====
